---- MODULE Spec2Model ----
(***************************************************************************)
(* Model of porsmo's Pomodoro mode: the Stopwatch (src/src/stopwatch.rs),  *)
(* the Session phase machine, the command dispatch pomodoro_update and the *)
(* control loop PomodoroUI::run_ui (src/src/pomodoro.rs).                  *)
(*                                                                         *)
(* Time is a natural number of clock units; Instant::now() reads `now`.    *)
(* A handler runs at one instant; time passes between handlers (Tick).     *)
(***************************************************************************)
EXTENDS Integers, Naturals, Sequences, FiniteSets, TLC

\* ------------------------------------------------------------------ bounds
MaxNow == 3        \* the clock stops advancing here
MaxRound == 4      \* breaks are not committed past this round
MaxTarget == 1     \* largest configured phase duration

\* ------------------------------------------------------------------ state
VARIABLES
    now,        \* the wall clock read by Instant::now()
    config,     \* PomodoroUI.config
    session,    \* PomodoroUI.session
    ui_mode,    \* PomodoroUI.ui_mode
    alerter,    \* PomodoroUI.alerter: has the alert fired since the last reset
    pc,         \* position of run_ui: "show", "event", "done", "failed"
    cmd,        \* the command of the current loop iteration ("None": none yet / idle)
    summary,    \* the totals formatted into the string run_ui returns, <<>> before that
    folded,     \* history: sum of all durations handed to Session::advance
    nadv,       \* history: number of Session::advance applied to `session`
    fold,       \* history: the durations `cmd` handed to Session::advance
    via,        \* history: the UIMode variant `cmd` was dispatched in ("None": not dispatched)
    skip_req,   \* history: <<session, elapsed, now, started>> at the Skip request, while it is pending
    prompt_time,\* history: how long the skip prompt was shown when `cmd` answered it
    screen,     \* the texts of the frame drawn by the show of this loop iteration
    phase_alerts,   \* history: alerts fired since the latest phase commit
    overrun_alerts, \* history: alerts fired since the current overrun was entered
    probe       \* the argument and result of a function applied on its own (SpecAdvance);
                \* in Spec: <<started>> of the stopwatch the phase ran on, when `cmd`
                \* committed the phase or cancelled the skip prompt

vars == <<now, config, session, ui_mode, alerter, pc, cmd, summary, folded, nadv, fold, via, skip_req, prompt_time,
          screen, phase_alerts, overrun_alerts, probe>>

\* enum Mode
Modes == {"Work", "Break", "LongBreak"}

\* enum Command, as matched by pomodoro_update and run_ui; "Invalid" stands
\* for every command matched only by the `_` arms
Commands == {"Quit", "Enter", "Yes", "No", "Pause", "Resume", "Toggle", "Skip", "Reset", "Invalid"}

\* Option<Instant>: None is {}, Some(t) is {t}
None == {}
Some(t) == {t}
unwrap(o) == CHOOSE t \in o : TRUE

\* --------------------------------------------------------------- Stopwatch
Stopwatch_new(start_time, elapsed_before) ==
    [start_time |-> start_time, elapsed_before |-> elapsed_before]

Stopwatch_default(t) ==
    [start_time |-> Some(t), elapsed_before |-> 0]

\* elapsed that leaves out the segment since the last start
elapsed_frozen(sw, t) == sw.elapsed_before

elapsed(sw, t) ==
    IF sw.start_time # None
    THEN sw.elapsed_before + (t - unwrap(sw.start_time))
    ELSE sw.elapsed_before

started(sw) == IF sw.start_time = None THEN FALSE ELSE TRUE

\* start that restarts a running stopwatch
start_restart(sw, t) ==
    [sw EXCEPT !.start_time = Some(t)]

start(sw, t) ==
    IF sw.start_time = None
    THEN [sw EXCEPT !.start_time = Some(t)]
    ELSE sw

\* stop that forgets the running interval
stop_drop(sw, t) ==
    IF sw.start_time # None
    THEN [start_time |-> None, elapsed_before |-> sw.elapsed_before]
    ELSE sw

stop(sw, t) ==
    IF sw.start_time # None
    THEN [start_time |-> None,
          elapsed_before |-> sw.elapsed_before + (t - unwrap(sw.start_time))]
    ELSE sw

toggle(sw, t) ==
    IF sw.start_time # None
    THEN [start_time |-> None,
          elapsed_before |-> sw.elapsed_before + (t - unwrap(sw.start_time))]
    ELSE [sw EXCEPT !.start_time = Some(t)]

\* ---------------------------------------------------------- PomodoroConfig
current_target(cfg, mode) ==
    CASE mode = "Work" -> cfg.work_time
      [] mode = "Break" -> cfg.break_time
      [] mode = "LongBreak" -> cfg.long_break

\* ----------------------------------------------------------------- Session
\* elapsed_time is [Duration; 2]: index 1 is elapsed_time[0] (work),
\* index 2 is elapsed_time[1] (break)
Session_default ==
    [mode |-> "Work", round |-> 1, elapsed_time |-> <<0, 0>>]

\* advance with the long break taken one round early (round % 4 == 3)
advance_long_early(self, duration) ==
    CASE self.mode = "Work" /\ self.round % 4 = 3 ->
            [self EXCEPT !.mode = "LongBreak",
                         !.elapsed_time = <<self.elapsed_time[1] + duration, self.elapsed_time[2]>>]
      [] self.mode = "Work" /\ self.round % 4 # 3 ->
            [self EXCEPT !.mode = "Break",
                         !.elapsed_time = <<self.elapsed_time[1] + duration, self.elapsed_time[2]>>]
      [] self.mode \in {"Break", "LongBreak"} ->
            [mode |-> "Work",
             round |-> self.round + 1,
             elapsed_time |-> <<self.elapsed_time[1], self.elapsed_time[2] + duration>>]

\* advance with the long break never taken (the guarded arm dropped)
advance_no_long(self, duration) ==
    CASE self.mode = "Work" ->
            [self EXCEPT !.mode = "Break",
                         !.elapsed_time = <<self.elapsed_time[1] + duration, self.elapsed_time[2]>>]
      [] self.mode \in {"Break", "LongBreak"} ->
            [mode |-> "Work",
             round |-> self.round + 1,
             elapsed_time |-> <<self.elapsed_time[1], self.elapsed_time[2] + duration>>]

\* advance with the round counted when a Work phase ends
advance_round_on_work(self, duration) ==
    CASE self.mode = "Work" /\ self.round % 4 = 0 ->
            [mode |-> "LongBreak",
             round |-> self.round + 1,
             elapsed_time |-> <<self.elapsed_time[1] + duration, self.elapsed_time[2]>>]
      [] self.mode = "Work" /\ self.round % 4 # 0 ->
            [mode |-> "Break",
             round |-> self.round + 1,
             elapsed_time |-> <<self.elapsed_time[1] + duration, self.elapsed_time[2]>>]
      [] self.mode \in {"Break", "LongBreak"} ->
            [self EXCEPT !.mode = "Work",
                         !.elapsed_time = <<self.elapsed_time[1], self.elapsed_time[2] + duration>>]

\* advance with the long break's time folded into the work total
advance_long_to_work(self, duration) ==
    CASE self.mode = "Work" /\ self.round % 4 = 0 ->
            [self EXCEPT !.mode = "LongBreak",
                         !.elapsed_time = <<self.elapsed_time[1] + duration, self.elapsed_time[2]>>]
      [] self.mode = "Work" /\ self.round % 4 # 0 ->
            [self EXCEPT !.mode = "Break",
                         !.elapsed_time = <<self.elapsed_time[1] + duration, self.elapsed_time[2]>>]
      [] self.mode = "Break" ->
            [mode |-> "Work",
             round |-> self.round + 1,
             elapsed_time |-> <<self.elapsed_time[1], self.elapsed_time[2] + duration>>]
      [] self.mode = "LongBreak" ->
            [mode |-> "Work",
             round |-> self.round + 1,
             elapsed_time |-> <<self.elapsed_time[1] + duration, self.elapsed_time[2]>>]

advance(self, duration) ==
    CASE self.mode = "Work" /\ self.round % 4 = 0 ->
            [self EXCEPT !.mode = "LongBreak",
                         !.elapsed_time = <<self.elapsed_time[1] + duration, self.elapsed_time[2]>>]
      [] self.mode = "Work" /\ self.round % 4 # 0 ->
            [self EXCEPT !.mode = "Break",
                         !.elapsed_time = <<self.elapsed_time[1] + duration, self.elapsed_time[2]>>]
      [] self.mode \in {"Break", "LongBreak"} ->
            [mode |-> "Work",
             round |-> self.round + 1,
             elapsed_time |-> <<self.elapsed_time[1], self.elapsed_time[2] + duration>>]

\* next that previews with a nonzero duration
next_unit(self) == advance(self, 1)

next(self) == advance(self, 0)

\* ------------------------------------------------------------------ UIMode
Skip(e) == [kind |-> "Skip", elapsed |-> e]
Running(sw) == [kind |-> "Running", stopwatch |-> sw]

UIMode_default(t) == Running(Stopwatch_default(t))

\* ----------------------------------------------------------------- Alerter
Alerter_default == FALSE
Alerter_reset(a) == FALSE
Alerter_alert_once(a) == TRUE
\* alert_once sends the notification only when none was sent since the last reset
Alerter_fires(a) == ~a

\* --------------------------------------------------------- pomodoro_update
\* The state pomodoro_update works on, with the durations it handed to
\* Session::advance (folds) for the history variables.
UpdState(s, u, a, f) == [session |-> s, ui_mode |-> u, alerter |-> a, folds |-> f]

\* cancel that rebuilds the stopwatch stopped
skip_cancel_paused(st, frozen, t) ==
    UpdState(st.session, Running(Stopwatch_new(None, frozen)), st.alerter, <<>>)

\* cancel that resumes with a fresh stopwatch (the frozen time is lost)
skip_cancel_fresh(st, frozen, t) ==
    UpdState(st.session, Running(Stopwatch_default(t)), st.alerter, <<>>)

\* UIMode::Skip, Command::Quit | Command::No
skip_cancel(st, frozen, t) ==
    UpdState(st.session, Running(Stopwatch_new(Some(t), frozen)), st.alerter, <<>>)

\* confirm that commits session.next() (the frozen time is not folded in)
skip_confirm_next(st, frozen, t) ==
    UpdState(advance(st.session, 0), Running(Stopwatch_default(t)),
             Alerter_reset(st.alerter), <<0>>)

\* UIMode::Skip, Command::Enter | Command::Yes
skip_confirm(st, frozen, t) ==
    UpdState(advance(st.session, frozen), Running(Stopwatch_default(t)),
             Alerter_reset(st.alerter), <<frozen>>)

\* the Enter arm without its guard
enter_accepted_always(el, target) == TRUE

\* the guard of the arm `Command::Enter if elapsed >= target`
enter_accepted(el, target) == el >= target

\* a commit whose new stopwatch stays paused when the old one was
commit_keep_pause(st, el, t) ==
    UpdState(advance(st.session, el),
             Running(IF started(st.ui_mode.stopwatch)
                     THEN Stopwatch_default(t) ELSE Stopwatch_new(None, 0)),
             Alerter_reset(st.alerter), <<el>>)

\* UIMode::Running, the body of the accepted Enter arm
commit(st, el, t) ==
    UpdState(advance(st.session, el), Running(Stopwatch_default(t)),
             Alerter_reset(st.alerter), <<el>>)

\* Skip that freezes only the time accumulated before the last start
skip_request_before(st, el) ==
    UpdState(st.session, Skip(st.ui_mode.stopwatch.elapsed_before), st.alerter, <<>>)

\* UIMode::Running, Command::Skip
skip_request(st, el) ==
    UpdState(st.session, Skip(el), st.alerter, <<>>)

\* Reset that also re-arms the alerter
reset_stopwatch_rearm(st, t) ==
    UpdState(st.session, Running(Stopwatch_default(t)), Alerter_reset(st.alerter), <<>>)

\* UIMode::Running, Command::Reset
reset_stopwatch(st, t) ==
    UpdState(st.session, Running(Stopwatch_default(t)), st.alerter, <<>>)

\* a prompt in which Reset zeroes the frozen elapsed
skip_ignored_reset(command, st) ==
    IF command = "Reset"
    THEN UpdState(st.session, Skip(0), st.alerter, <<>>)
    ELSE UpdState(st.session, st.ui_mode, st.alerter, <<>>)

\* UIMode::Skip, the arm `_ => ()`
skip_ignored(command, st) ==
    UpdState(st.session, st.ui_mode, st.alerter, <<>>)

pomodoro_update(command, cfg, st, t) ==
    IF st.ui_mode.kind = "Skip"
    THEN LET frozen == st.ui_mode.elapsed IN
         CASE command \in {"Quit", "No"} -> skip_cancel(st, frozen, t)
           [] command \in {"Enter", "Yes"} -> skip_confirm(st, frozen, t)
           [] OTHER -> skip_ignored(command, st)
    ELSE LET stopwatch == st.ui_mode.stopwatch
             el == elapsed(stopwatch, t)
             target == current_target(cfg, st.session.mode)
         IN  CASE command = "Enter" /\ enter_accepted(el, target) -> commit(st, el, t)
               [] command = "Pause" ->
                    UpdState(st.session, Running(stop(stopwatch, t)), st.alerter, <<>>)
               [] command = "Resume" ->
                    UpdState(st.session, Running(start(stopwatch, t)), st.alerter, <<>>)
               [] command = "Toggle" ->
                    UpdState(st.session, Running(toggle(stopwatch, t)), st.alerter, <<>>)
               [] command = "Skip" -> skip_request(st, el)
               [] command = "Reset" -> reset_stopwatch(st, t)
               [] OTHER -> [st EXCEPT !.folds = <<>>]

\* ------------------------------------------------------------------- texts
default_title(mode) ==
    CASE mode = "Work" -> "Pomodoro (Work)"
      [] mode = "Break" -> "Pomodoro (Break)"
      [] mode = "LongBreak" -> "Pomodoro (Long Break)"

end_title(next_mode) ==
    CASE next_mode = "Work" -> "Break has ended! Start work?"
      [] next_mode = "Break" -> "Work has ended! Start break?"
      [] next_mode = "LongBreak" -> "Work has ended! Start a long break"

\* alert_message with the texts of the two breaks exchanged
alert_message_swapped(next_mode) ==
    CASE next_mode = "Work" -> <<"Your break ended!", "Time for some work">>
      [] next_mode = "Break" -> <<"Pomodoro 4 sessions complete!", "Time for a long break">>
      [] next_mode = "LongBreak" -> <<"Pomodoro ended!", "Time for a short break">>

alert_message(next_mode) ==
    CASE next_mode = "Work" -> <<"Your break ended!", "Time for some work">>
      [] next_mode = "Break" -> <<"Pomodoro ended!", "Time for a short break">>
      [] next_mode = "LongBreak" -> <<"Pomodoro 4 sessions complete!", "Time for a long break">>

\* the prompt of the UIMode::Skip arm of pomodoro_show
skip_to(next_mode) ==
    CASE next_mode = "Work" -> "skip to work?"
      [] next_mode = "Break" -> "skip to break?"
      [] next_mode = "LongBreak" -> "skip to long break?"

\* ----------------------------------------------------------- pomodoro_show
\* the ended arm taken only once the target is exceeded
show_ended_strict(cfg, u, s, t) ==
    u.kind = "Running" /\ elapsed(u.stopwatch, t) > current_target(cfg, s.mode)

\* the third arm of pomodoro_show is taken: Running and not elapsed < target
show_ended(cfg, u, s, t) ==
    u.kind = "Running" /\ ~(elapsed(u.stopwatch, t) < current_target(cfg, s.mode))

\* The effect of a redraw on the program state: only the last arm
\* (Running, elapsed >= target) calls alerter.alert_once.
pomodoro_show(cfg, u, s, a, t) ==
    IF show_ended(cfg, u, s, t)
    THEN Alerter_alert_once(a)
    ELSE a

\* The texts pomodoro_show draws: the title line, and the (title, message)
\* pair it hands to alerter.alert_once (<<>> when it does not call it).
pomodoro_frame(cfg, u, s, t) ==
    CASE u.kind = "Skip" ->
            [arm |-> "skip", title |-> skip_to(next(s).mode), alert |-> <<>>]
      [] u.kind = "Running" /\ ~show_ended(cfg, u, s, t) ->
            [arm |-> "running", title |-> default_title(s.mode), alert |-> <<>>]
      [] u.kind = "Running" /\ show_ended(cfg, u, s, t) ->
            [arm |-> "ended", title |-> end_title(next(s).mode),
             alert |-> alert_message(next(s).mode)]

\* the elapsed time on display: the frozen one while a skip is pending
shown_elapsed(u, t) == IF u.kind = "Skip" THEN u.elapsed ELSE elapsed(u.stopwatch, t)

\* the phase is in overrun: the elapsed on display has reached the target
InOverrun(cfg, u, s, t) == shown_elapsed(u, t) >= current_target(cfg, s.mode)

\* ------------------------------------------------------------------ run_ui
\* PomodoroConfig values the program is started with
Configs ==
    [work_time : 0..MaxTarget, break_time : 0..MaxTarget, long_break : 0..MaxTarget]

NoSkip == <<>>
NoProbe == <<>>
NoScreen == <<>>

Sum(s) == IF s = <<>> THEN 0 ELSE s[1]

\* PomodoroUI::new(config) at the instant the program starts
Init ==
    /\ now = 0
    /\ config \in Configs
    /\ session = Session_default
    /\ ui_mode = UIMode_default(0)
    /\ alerter = Alerter_default
    /\ pc = "show"
    /\ cmd = "None"
    /\ summary = <<>>
    /\ folded = 0
    /\ nadv = 0
    /\ fold = <<>>
    /\ via = "None"
    /\ skip_req = NoSkip
    /\ prompt_time = 0
    /\ screen = NoScreen
    /\ phase_alerts = 0
    /\ overrun_alerts = 0
    /\ probe = NoProbe

\* time passes between two steps of the loop
Tick ==
    /\ pc \in {"show", "event"}
    /\ now < MaxNow
    /\ now' = now + 1
    /\ UNCHANGED <<config, session, ui_mode, alerter, pc, cmd, summary, folded, nadv, fold, via, skip_req, prompt_time,
                   screen, phase_alerts, overrun_alerts, probe>>

\* self.show(out)? succeeds
Show ==
    /\ pc = "show"
    /\ alerter' = pomodoro_show(config, ui_mode, session, alerter, now)
    /\ pc' = "event"
    /\ cmd' = "None"
    /\ fold' = <<>>
    /\ via' = "None"
    /\ prompt_time' = 0
    /\ screen' = pomodoro_frame(config, ui_mode, session, now)
    /\ LET fired == IF show_ended(config, ui_mode, session, now) /\ Alerter_fires(alerter)
                    THEN 1 ELSE 0
       IN  /\ phase_alerts' = phase_alerts + fired
           /\ overrun_alerts' = overrun_alerts + fired
    /\ probe' = NoProbe
    /\ UNCHANGED <<now, config, session, ui_mode, summary, folded, nadv, skip_req>>

\* self.show(out)? returns Err: pomodoro_show has run up to the failing write
ShowFail ==
    /\ pc = "show"
    /\ alerter' = pomodoro_show(config, ui_mode, session, alerter, now)
    /\ pc' = "failed"
    /\ cmd' = "None"
    /\ fold' = <<>>
    /\ via' = "None"
    /\ prompt_time' = 0
    /\ screen' = pomodoro_frame(config, ui_mode, session, now)
    /\ LET fired == IF show_ended(config, ui_mode, session, now) /\ Alerter_fires(alerter)
                    THEN 1 ELSE 0
       IN  /\ phase_alerts' = phase_alerts + fired
           /\ overrun_alerts' = overrun_alerts + fired
    /\ probe' = NoProbe
    /\ UNCHANGED <<now, config, session, ui_mode, summary, folded, nadv, skip_req>>

\* get_event(TIMEOUT)? returns None: the timeout elapsed without input
Idle ==
    /\ pc = "event"
    /\ pc' = "show"
    /\ screen' = NoScreen
    /\ UNCHANGED <<now, config, session, ui_mode, alerter, cmd, summary, folded, nadv, fold, via, skip_req, prompt_time,
                   phase_alerts, overrun_alerts, probe>>

\* the arm `cmd => self.update(cmd)` of run_ui, for one command
Update(command) ==
    /\ pc = "event"
    /\ cmd' = command
    /\ LET st == UpdState(session, ui_mode, alerter, <<>>)
           r == pomodoro_update(command, config, st, now)
       IN
        /\ r.folds # <<>> /\ session.mode # "Work" => session.round < MaxRound
        /\ session' = r.session
        /\ ui_mode' = r.ui_mode
        /\ alerter' = r.alerter
        /\ folded' = folded + Sum(r.folds)
        /\ nadv' = nadv + Len(r.folds)
        /\ fold' = r.folds
        /\ skip_req' = CASE ui_mode.kind = "Running" /\ r.ui_mode.kind = "Skip" ->
                                <<session, elapsed(ui_mode.stopwatch, now), now,
                                  started(ui_mode.stopwatch)>>
                         [] ui_mode.kind = "Skip" /\ r.ui_mode.kind = "Running" -> NoSkip
                         [] OTHER -> skip_req
        /\ prompt_time' = IF ui_mode.kind = "Skip" /\ r.ui_mode.kind = "Running"
                          THEN now - skip_req[3]
                          ELSE 0
        /\ phase_alerts' = IF r.folds # <<>> THEN 0 ELSE phase_alerts
        /\ overrun_alerts' = IF r.folds # <<>> \/ ~InOverrun(config, r.ui_mode, r.session, now)
                             THEN 0 ELSE overrun_alerts
        /\ probe' = CASE ui_mode.kind = "Skip" /\ r.ui_mode.kind = "Running" -> <<skip_req[4]>>
                      [] ui_mode.kind = "Running" /\ r.folds # <<>> ->
                                <<started(ui_mode.stopwatch)>>
                      [] OTHER -> NoProbe
    /\ via' = ui_mode.kind
    /\ pc' = "show"
    /\ screen' = NoScreen
    /\ UNCHANGED <<now, config, summary>>

\* the final fold that discards the frozen time of a pending skip
quit_fold_discard(s, u, t) ==
    IF u.kind = "Skip"
    THEN [session |-> advance(s, 0), folds |-> <<0>>]
    ELSE [session |-> advance(s, elapsed(u.stopwatch, t)), folds |-> <<elapsed(u.stopwatch, t)>>]

\* the Command::Quit arm of run_ui: the final fold, break, and the summary
quit_fold(s, u, t) ==
    IF u.kind = "Skip"
    THEN [session |-> advance(s, u.elapsed), folds |-> <<u.elapsed>>]
    ELSE [session |-> advance(s, elapsed(u.stopwatch, t)), folds |-> <<elapsed(u.stopwatch, t)>>]

\* a poll failure handled like Quit: the running phase is folded and a
\* summary is produced before the error is returned
PollFail_folds ==
    /\ pc = "event"
    /\ pc' = "failed"
    /\ LET r == quit_fold(session, ui_mode, now) IN
        /\ session' = r.session
        /\ folded' = folded + Sum(r.folds)
        /\ nadv' = nadv + Len(r.folds)
        /\ fold' = r.folds
        /\ summary' = r.session.elapsed_time
    /\ UNCHANGED <<now, config, ui_mode, alerter, cmd, via, skip_req, prompt_time,
                   screen, phase_alerts, overrun_alerts, probe>>

\* get_event(TIMEOUT)? returns Err
PollFail ==
    /\ pc = "event"
    /\ pc' = "failed"
    /\ UNCHANGED <<now, config, session, ui_mode, alerter, cmd, summary, folded, nadv, fold, via, skip_req, prompt_time,
                   screen, phase_alerts, overrun_alerts, probe>>

\* run_ui without its own Quit arm while a skip is pending: Quit is handed
\* to pomodoro_update, which cancels the skip
Quit_to_update ==
    IF ui_mode.kind = "Skip"
    THEN Update("Quit")
    ELSE /\ pc = "event"
         /\ cmd' = "Quit"
         /\ LET r == quit_fold(session, ui_mode, now) IN
             /\ session' = r.session
             /\ folded' = folded + Sum(r.folds)
             /\ nadv' = nadv + Len(r.folds)
             /\ fold' = r.folds
             /\ summary' = r.session.elapsed_time
         /\ via' = ui_mode.kind
         /\ pc' = "done"
         /\ screen' = NoScreen
         /\ UNCHANGED <<now, config, ui_mode, alerter, skip_req, prompt_time, phase_alerts,
                        overrun_alerts, probe>>

Quit ==
    /\ pc = "event"
    /\ cmd' = "Quit"
    /\ LET r == quit_fold(session, ui_mode, now) IN
        /\ session' = r.session
        /\ folded' = folded + Sum(r.folds)
        /\ nadv' = nadv + Len(r.folds)
        /\ fold' = r.folds
        /\ summary' = r.session.elapsed_time
    /\ via' = ui_mode.kind
    /\ pc' = "done"
    /\ screen' = NoScreen
    /\ UNCHANGED <<now, config, ui_mode, alerter, skip_req, prompt_time, phase_alerts, overrun_alerts, probe>>

Enter == Update("Enter")
Yes == Update("Yes")
No == Update("No")
Pause == Update("Pause")
Resume == Update("Resume")
Toggle == Update("Toggle")
SkipCmd == Update("Skip")
Reset == Update("Reset")
Invalid == Update("Invalid")

Next ==
    \/ Tick
    \/ Show
    \/ ShowFail
    \/ PollFail
    \/ Idle
    \/ Quit
    \/ Enter
    \/ Yes
    \/ No
    \/ Pause
    \/ Resume
    \/ Toggle
    \/ SkipCmd
    \/ Reset
    \/ Invalid

Spec == Init /\ [][Next]_vars

\* get_event(TIMEOUT)? has returned: an error, nothing, or a command
Poll ==
    \/ PollFail
    \/ Idle
    \/ Quit
    \/ \E command \in Commands \ {"Quit"} : Update(command)

\* the program started with one duration for all three phases
InitLive ==
    /\ Init
    /\ config.work_time = config.break_time
    /\ config.break_time = config.long_break

\* The loop under its scheduling: the clock advances (up to MaxNow), a show
\* that is called returns, and get_event returns within TIMEOUT.
SpecLive ==
    /\ InitLive
    /\ [][Next]_vars
    /\ WF_vars(Tick)
    /\ WF_vars(Show \/ ShowFail)
    /\ WF_vars(Poll)


\* ------------------------------------------------- Session::advance alone
\* every Session value, also those the loop never reaches
Sessions ==
    [mode : Modes, round : 1..MaxRound, elapsed_time : (0..MaxNow) \X (0..MaxNow)]

InitAdvance ==
    /\ now = 0
    /\ config \in Configs
    /\ session \in Sessions
    /\ ui_mode = UIMode_default(0)
    /\ alerter = Alerter_default
    /\ pc = "show"
    /\ cmd = "None"
    /\ summary = <<>>
    /\ folded = 0
    /\ nadv = 0
    /\ fold = <<>>
    /\ via = "None"
    /\ skip_req = NoSkip
    /\ prompt_time = 0
    /\ screen = NoScreen
    /\ phase_alerts = 0
    /\ overrun_alerts = 0
    /\ probe = NoProbe

\* session = session.advance(d), the argument kept in probe
ApplyAdvance ==
    /\ probe = NoProbe
    /\ \E d \in 0..MaxNow :
        /\ probe' = <<session, d>>
        /\ session' = advance(session, d)
    /\ UNCHANGED <<now, config, ui_mode, alerter, pc, cmd, summary, folded, nadv, fold, via,
                   skip_req, prompt_time, screen, phase_alerts, overrun_alerts>>

NextAdvance == ApplyAdvance

SpecAdvance == InitAdvance /\ [][NextAdvance]_vars

\* ---------------------------------------------------- Session::next alone
\* session.next() beside session.advance(d); next takes &self, so session
\* stays. probe = <<session, d, session.next(), session.advance(d)>>
ApplyNext ==
    /\ probe = NoProbe
    /\ \E d \in 0..MaxNow :
        probe' = <<session, d, next(session), advance(session, d)>>
    /\ UNCHANGED <<now, config, session, ui_mode, alerter, pc, cmd, summary, folded, nadv, fold,
                   via, skip_req, prompt_time, screen, phase_alerts, overrun_alerts>>

NextNext == ApplyNext

SpecNext == InitAdvance /\ [][NextNext]_vars

\* ------------------------------------------------------- one Stopwatch alone
\* One Stopwatch value, held in ui_mode, under start, stop, toggle and the
\* passage of time. probe = <<the latest operation, the stopwatch before it>>
InitStopwatch ==
    /\ now = 0
    /\ config = [work_time |-> MaxTarget, break_time |-> MaxTarget, long_break |-> MaxTarget]
    /\ session = Session_default
    /\ \E st \in {None, Some(0)}, eb \in 0..MaxNow :
            ui_mode = Running(Stopwatch_new(st, eb))
    /\ alerter = Alerter_default
    /\ pc = "show"
    /\ cmd = "None"
    /\ summary = <<>>
    /\ folded = 0
    /\ nadv = 0
    /\ fold = <<>>
    /\ via = "None"
    /\ skip_req = NoSkip
    /\ prompt_time = 0
    /\ screen = NoScreen
    /\ phase_alerts = 0
    /\ overrun_alerts = 0
    /\ probe = NoProbe

SwFrame ==
    UNCHANGED <<config, session, alerter, pc, cmd, summary, folded, nadv, fold, via, skip_req,
                prompt_time, screen, phase_alerts, overrun_alerts>>

SwTick ==
    /\ now < MaxNow
    /\ now' = now + 1
    /\ probe' = <<"tick", ui_mode.stopwatch>>
    /\ UNCHANGED ui_mode
    /\ SwFrame

SwStart ==
    /\ ui_mode' = Running(start(ui_mode.stopwatch, now))
    /\ probe' = <<"start", ui_mode.stopwatch>>
    /\ UNCHANGED now
    /\ SwFrame

SwStop ==
    /\ ui_mode' = Running(stop(ui_mode.stopwatch, now))
    /\ probe' = <<"stop", ui_mode.stopwatch>>
    /\ UNCHANGED now
    /\ SwFrame

SwToggle ==
    /\ ui_mode' = Running(toggle(ui_mode.stopwatch, now))
    /\ probe' = <<"toggle", ui_mode.stopwatch>>
    /\ UNCHANGED now
    /\ SwFrame

NextStopwatch ==
    \/ SwTick
    \/ SwStart
    \/ SwStop
    \/ SwToggle

SpecStopwatch == InitStopwatch /\ [][NextStopwatch]_vars

\* ---------------------------------- repeated advances of the default Session
MaxCycleRound == 9     \* the cycle is followed up to this round

AdvanceStep ==
    /\ session.round <= MaxCycleRound
    /\ \E d \in 0..MaxNow :
        /\ folded + d <= MaxNow
        /\ session' = advance(session, d)
        /\ folded' = folded + d
        /\ fold' = <<d>>
    /\ nadv' = nadv + 1
    /\ UNCHANGED <<now, config, ui_mode, alerter, pc, cmd, summary, via, skip_req,
                   prompt_time, screen, phase_alerts, overrun_alerts, probe>>

NextCycle == AdvanceStep

SpecCycle == Init /\ [][NextCycle]_vars

\* ------------------------------------------- the progress bar and the times
MaxBarElapsed == 12     \* largest elapsed time put on display
MaxBarTarget == 8       \* largest target put on display
BarWidths == {30, 50}   \* bar_width of pomodoro_show, and UI_WIDTH

\* A ratio (an f64 in the code) is kept exactly, as <<numerator, denominator>>
\* with denominator > 0.
RatioLeq(a, b) == a[1] * b[2] <= b[1] * a[2]
RatioEq(a, b) == a[1] * b[2] = b[1] * a[2]
RatioZero == <<0, 1>>
RatioOne == <<1, 1>>

\* f64::clamp(0.0, 1.0)
clamp01(r) ==
    IF RatioLeq(r, RatioZero) THEN RatioZero
    ELSE IF RatioLeq(RatioOne, r) THEN RatioOne
    ELSE r

\* (r * k as f64).round() as usize, for r >= 0: half rounds away from zero
round_times(r, k) == (2 * r[1] * k + r[2]) \div (2 * r[2])

\* Duration::saturating_sub, usize::saturating_sub
saturating_sub(a, b) == IF a >= b THEN a - b ELSE 0

\* the ratio without the clamp
progress_ratio_unclamped(el, target) ==
    IF target = 0 THEN RatioOne ELSE <<el, target>>

\* `let ratio = if target.is_zero() { 1.0 } else { (e / t).clamp(0.0, 1.0) }`
progress_ratio(el, target) ==
    IF target = 0 THEN RatioOne ELSE clamp01(<<el, target>>)

\* fn progress_bar(elapsed, target, width), the numbers behind its string
progress_bar(el, target, width) ==
    LET ratio == progress_ratio(el, target)
        filled0 == round_times(ratio, width)
        filled == IF filled0 < width THEN filled0 ELSE width
        empty == width - filled
        percent == round_times(ratio, 100)
    IN  [ratio |-> ratio, filled |-> filled, empty |-> empty, percent |-> percent]

\* the bar pomodoro_show computes in its arm `elapsed < target`
show_bar(el, target) ==
    LET bar_width == 30
        ratio == progress_ratio(el, target)
        filled == round_times(ratio, bar_width)
        empty == saturating_sub(bar_width, filled)
        percent == round_times(ratio, 100)
    IN  [ratio |-> ratio, filled |-> filled, empty |-> empty, percent |-> percent,
         bar_width |-> bar_width]

\* the ended arm taken whenever some time has elapsed
show_running_eager(el, target) ==
    IF el = 0 /\ el < target
    THEN [arm |-> "running", time_left |-> saturating_sub(target, el),
          bar |-> show_bar(el, target)]
    ELSE [arm |-> "ended", excess_time |-> saturating_sub(el, target)]

\* what the two Running arms of pomodoro_show put on display
show_running(el, target) ==
    IF el < target
    THEN [arm |-> "running", time_left |-> saturating_sub(target, el),
          bar |-> show_bar(el, target)]
    ELSE [arm |-> "ended", excess_time |-> saturating_sub(el, target)]

\* probe = the display of one elapsed time against one target
Display(el, target, width) ==
    [elapsed |-> el, target |-> target, width |-> width,
     bar |-> progress_bar(el, target, width),
     shown |-> show_running(el, target)]

InitProgress ==
    /\ now = 0
    /\ config = [work_time |-> MaxTarget, break_time |-> MaxTarget, long_break |-> MaxTarget]
    /\ session = Session_default
    /\ ui_mode = UIMode_default(0)
    /\ alerter = Alerter_default
    /\ pc = "show"
    /\ cmd = "None"
    /\ summary = <<>>
    /\ folded = 0
    /\ nadv = 0
    /\ fold = <<>>
    /\ via = "None"
    /\ skip_req = NoSkip
    /\ prompt_time = 0
    /\ screen = NoScreen
    /\ phase_alerts = 0
    /\ overrun_alerts = 0
    /\ \E target \in 0..MaxBarTarget, width \in BarWidths :
            probe = Display(0, target, width)

\* the next redraw, one unit of time later
Redraw ==
    /\ probe.elapsed < MaxBarElapsed
    /\ probe' = Display(probe.elapsed + 1, probe.target, probe.width)
    /\ UNCHANGED <<now, config, session, ui_mode, alerter, pc, cmd, summary, folded, nadv, fold,
                   via, skip_req, prompt_time, screen, phase_alerts, overrun_alerts>>

NextProgress == Redraw

SpecProgress == InitProgress /\ [][NextProgress]_vars

\* ------------------------------------------------------------------ claims
\* a step of run_ui that hands command c to pomodoro_update (c = "None": idle tick)
UpdateStep(c) == pc = "event" /\ pc' = "show" /\ cmd' = c
\* the step of run_ui that takes the Command::Quit arm
QuitStep == pc = "event" /\ pc' = "done"

Breaks == {"Break", "LongBreak"}
Fresh(t) == Running([start_time |-> {t}, elapsed_before |-> 0])

\* C1: advance(d) from Work yields LongBreak when round mod 4 = 0 and Break
\* otherwise, adds d to work_total and keeps round; from Break or LongBreak it
\* yields Work, adds d to break_total and sets round to round + 1; the other
\* total is unchanged.
C1_AdvanceFunction ==
    probe # NoProbe =>
        LET s == probe[1]
            d == probe[2]
        IN  /\ s.mode = "Work" =>
                /\ session.mode = (IF s.round % 4 = 0 THEN "LongBreak" ELSE "Break")
                /\ session.round = s.round
                /\ session.elapsed_time[1] = s.elapsed_time[1] + d
                /\ session.elapsed_time[2] = s.elapsed_time[2]
            /\ s.mode \in Breaks =>
                /\ session.mode = "Work"
                /\ session.round = s.round + 1
                /\ session.elapsed_time[1] = s.elapsed_time[1]
                /\ session.elapsed_time[2] = s.elapsed_time[2] + d

C1_Witness ==
    /\ probe # NoProbe
    /\ probe[1].mode = "Work" /\ probe[1].round = 4 /\ probe[2] = 2
    /\ session.mode = "LongBreak"

\* C2: round starts at 1, never decreases, and changes only by exactly +1 in
\* a step that moves the mode from Break or LongBreak to Work.
C2_RoundStep ==
    /\ session.round = 1
    /\ [][ /\ session'.round >= session.round
           /\ session'.round # session.round =>
                /\ session'.round = session.round + 1
                /\ session.mode \in Breaks
                /\ session'.mode = "Work" ]_vars

C2_Witness ==
    /\ session.round = 3 /\ session.mode = "Work"
    /\ cmd = "Enter" /\ via = "Running" /\ fold # <<>>

\* C3: work_total and break_total never decrease, work_total changes only in
\* a step that leaves Work, break_total only in a step that leaves Break or
\* LongBreak, and their sum is the sum of all durations folded in so far.
C3_Totals ==
    /\ [](session.elapsed_time[1] + session.elapsed_time[2] = folded)
    /\ [][ /\ session'.elapsed_time[1] >= session.elapsed_time[1]
           /\ session'.elapsed_time[2] >= session.elapsed_time[2]
           /\ session'.elapsed_time[1] # session.elapsed_time[1] =>
                session.mode = "Work" /\ session'.mode # "Work"
           /\ session'.elapsed_time[2] # session.elapsed_time[2] =>
                session.mode \in Breaks /\ session'.mode \notin Breaks ]_vars

C3_Witness ==
    /\ session.elapsed_time[1] > 0 /\ session.elapsed_time[2] > 0
    /\ session.round = 4 /\ fold # <<>> /\ fold[1] > 0

\* C4: from the default Session repeated advances visit Work, Break, Work,
\* Break, Work, Break, Work, LongBreak with rounds 1,1,2,2,3,3,4,4, then Work
\* at round 5, and the pattern repeats; Work is followed by LongBreak exactly
\* when its round is a multiple of 4, and phases alternate work and break.
Cycle == <<"Work", "Break", "Work", "Break", "Work", "Break", "Work", "LongBreak">>

C4_Cycle ==
    /\ [](/\ session.mode = Cycle[(nadv % 8) + 1]
          /\ session.round = (nadv \div 2) + 1)
    /\ [][ nadv' # nadv =>
            /\ session.mode = "Work" =>
                /\ session'.mode \in Breaks
                /\ session'.mode = "LongBreak" <=> session.round % 4 = 0
            /\ session.mode \in Breaks => session'.mode = "Work" ]_vars

C4_Witness ==
    nadv = 15 /\ session.mode = "LongBreak" /\ session.round = 8

\* C5: in Running, Enter is accepted only when the stopwatch's elapsed is at
\* least the target of the current mode: then it resets the alerter, replaces
\* the Session by advance(elapsed) and installs a fresh stopwatch; otherwise
\* it changes neither Session, stopwatch, sub-state nor alerter.
C5_CommitGate ==
    [][ (ui_mode.kind = "Running" /\ UpdateStep("Enter")) =>
            LET e == elapsed(ui_mode.stopwatch, now) IN
            IF e >= current_target(config, session.mode)
            THEN /\ alerter' = FALSE
                 /\ session' = advance(session, e)
                 /\ ui_mode' = Fresh(now')
            ELSE UNCHANGED <<session, ui_mode, alerter>> ]_vars

C5_Witness ==
    /\ cmd = "Enter" /\ via = "Running" /\ pc = "show"
    /\ fold = <<2>> /\ config.work_time = 1
    /\ session.mode = "Break" /\ session.elapsed_time = <<2, 0>>

\* C6: a Skip request followed by cancel (No) leaves the Session as it was
\* before the request, and the elapsed time of the resumed stopwatch at the
\* moment of cancel is the elapsed value frozen at the request, however much
\* time passed while the prompt was shown.
C6_SkipCancel ==
    [][ (ui_mode.kind = "Skip" /\ UpdateStep("No")) =>
            /\ session' = skip_req[1]
            /\ ui_mode'.kind = "Running"
            /\ elapsed(ui_mode'.stopwatch, now') = skip_req[2] ]_vars

C6_Witness ==
    /\ cmd = "No" /\ via = "Skip" /\ pc = "show"
    /\ prompt_time = 2
    /\ ui_mode.kind = "Running" /\ elapsed(ui_mode.stopwatch, now) = 1

\* C7: Skip at elapsed e followed by confirm (Enter or Yes) produces the
\* Session an accepted commit at elapsed e produces, resets the alerter and
\* installs a fresh zero stopwatch; the time the prompt was shown is not
\* folded in.
C7_SkipConfirm ==
    [][ (ui_mode.kind = "Skip" /\ (UpdateStep("Enter") \/ UpdateStep("Yes"))) =>
            LET atRequest == UpdState(skip_req[1], ui_mode, alerter, <<>>)
                committed == commit(atRequest, skip_req[2], now')
            IN  /\ session' = committed.session
                /\ alerter' = FALSE
                /\ ui_mode' = Fresh(now')
                /\ elapsed(ui_mode'.stopwatch, now') = 0 ]_vars

C7_Witness ==
    /\ cmd = "Yes" /\ via = "Skip" /\ pc = "show"
    /\ prompt_time = 2 /\ fold = <<1>>
    /\ session.mode = "Break" /\ session.elapsed_time = <<1, 0>>

\* C8: on Quit the final summary fold leaves the Session's mode and round
\* unchanged.
C8_QuitKeepsPhase ==
    [][ QuitStep =>
            /\ session'.mode = session.mode
            /\ session'.round = session.round ]_vars

\* C9: on Quit the summary's totals are the totals before Quit plus the
\* displayed elapsed (the stopwatch's elapsed in Running, the frozen elapsed
\* in PendingSkip) added to work_total in Work and to break_total in Break or
\* LongBreak; the other total is unchanged.
C9_QuitTotals ==
    [][ QuitStep =>
            LET shown == IF ui_mode.kind = "Skip"
                         THEN ui_mode.elapsed
                         ELSE elapsed(ui_mode.stopwatch, now)
                w == session.elapsed_time[1]
                b == session.elapsed_time[2]
            IN  /\ summary' = IF session.mode = "Work"
                              THEN <<w + shown, b>>
                              ELSE <<w, b + shown>>
                /\ session'.elapsed_time = summary' ]_vars

C9_Witness ==
    /\ pc = "done" /\ cmd = "Quit" /\ via = "Skip"
    /\ fold = <<1>> /\ now = 3
    /\ session.mode = "Work" /\ session.round = 2
    /\ summary = <<1, 1>>

\* C10: while a skip confirmation is pending, Quit acts as cancel, like No:
\* the loop goes back to Running with a running stopwatch whose accumulated
\* time is the frozen elapsed, and the program does not end.
C10_QuitCancelsSkip ==
    [][ (pc = "event" /\ ui_mode.kind = "Skip" /\ cmd' = "Quit") =>
            /\ pc' = "show"
            /\ ui_mode' = Running([start_time |-> {now'}, elapsed_before |-> ui_mode.elapsed]) ]_vars

\* a step of run_ui that commits a phase transition: an accepted Enter in
\* Running, or Enter/Yes in the skip prompt
PhaseCommit ==
    \/ /\ ui_mode.kind = "Running"
       /\ UpdateStep("Enter")
       /\ elapsed(ui_mode.stopwatch, now) >= current_target(config, session.mode)
    \/ /\ ui_mode.kind = "Skip"
       /\ UpdateStep("Enter") \/ UpdateStep("Yes")

\* C11: the alerter is re-armed exactly by a phase commit and by no other
\* command or step, so at most one alert is fired between two consecutive
\* phase commits.
C11_AlerterRearm ==
    /\ [](phase_alerts <= 1)
    /\ [][ /\ PhaseCommit => ~alerter'
           /\ ~PhaseCommit => (alerter => alerter') ]_vars

C11_Witness ==
    /\ pc = "event" /\ screen # NoScreen /\ screen.arm = "ended"
    /\ phase_alerts = 1 /\ overrun_alerts = 0 /\ alerter

\* a step of run_ui that runs self.show (it may fail after pomodoro_show ran)
ShowStep == pc = "show" /\ pc' # "show"
\* the stopwatch runs the phase past its target: the redraw takes the ended arm
Ended == ui_mode.kind = "Running"
         /\ elapsed(ui_mode.stopwatch, now) >= current_target(config, session.mode)

\* C12 (as stated): every time the phase enters overrun the alert is fired
\* exactly once for that entry, also after a Reset that follows an earlier
\* overrun: a redraw in overrun leaves exactly one alert fired for the entry.
C12_AlertPerOverrun ==
    [][ (ShowStep /\ Ended) => overrun_alerts' = 1 ]_vars

\* C12 (amended): within one phase, between two phase commits, the alert is
\* fired exactly once, by the first redraw in Running with elapsed >= target;
\* no other step fires it, and an overrun entered again after Reset in the
\* same phase fires no further alert.
C12_AlertPerPhase ==
    [][ /\ (ShowStep /\ Ended) => phase_alerts' = 1
        /\ phase_alerts' > phase_alerts => (ShowStep /\ Ended /\ phase_alerts = 0) ]_vars

C12_Witness ==
    /\ pc = "event" /\ screen # NoScreen /\ screen.arm = "ended"
    /\ session.mode = "Break" /\ config.break_time = 1
    /\ phase_alerts = 1 /\ overrun_alerts = 1 /\ alerter

\* the texts that announce each phase
WorkTexts == {"Break has ended! Start work?", "Your break ended!", "skip to work?"}
BreakTexts == {"Work has ended! Start break?", "Pomodoro ended!", "skip to break?"}
LongBreakTexts ==
    {"Work has ended! Start a long break", "Pomodoro 4 sessions complete!", "skip to long break?"}

\* text t is shown only when a commit from the current Session enters its phase
TextFitsSession(t) ==
    /\ t \in WorkTexts => session.mode \in Breaks
    /\ t \in BreakTexts => session.mode = "Work" /\ session.round % 4 # 0
    /\ t \in LongBreakTexts => session.mode = "Work" /\ session.round % 4 = 0

\* C13: whenever an alert is requested or the ended title or the skip prompt
\* is shown, its text is the one for the mode a commit from the current
\* Session would enter: Break or LongBreak texts only during Work (LongBreak
\* exactly when round mod 4 = 0), the Work text only during a break.
C13_NextPhaseTexts ==
    screen # NoScreen =>
        /\ screen.arm \in {"ended", "skip"} =>
                /\ screen.title \in WorkTexts \cup BreakTexts \cup LongBreakTexts
                /\ TextFitsSession(screen.title)
        /\ screen.arm = "ended" =>
                /\ screen.alert # <<>>
                /\ screen.alert[1] \in WorkTexts \cup BreakTexts \cup LongBreakTexts
                /\ TextFitsSession(screen.alert[1])
        /\ screen.arm # "ended" => screen.alert = <<>>

C13_Witness ==
    /\ screen # NoScreen /\ screen.arm = "ended"
    /\ session.mode = "Work" /\ session.round = 4
    /\ screen.alert = <<"Pomodoro 4 sessions complete!", "Time for a long break">>
    /\ screen.title = "Work has ended! Start a long break"

\* C14 (as stated): next() reports the target mode of advance(d), s is not
\* modified, and the previewed value carries the same round and totals as s.
C14_PeekKeepsRound ==
    probe # NoProbe =>
        /\ probe[3].mode = probe[4].mode
        /\ session = probe[1]
        /\ probe[3].round = probe[1].round
        /\ probe[3].elapsed_time = probe[1].elapsed_time

\* C14 (amended): next() reports the target mode of advance(d), s is not
\* modified, and the previewed value carries the totals of s and the round
\* advance gives: the round of s from Work, round + 1 from Break or LongBreak.
C14_PeekNext ==
    probe # NoProbe =>
        /\ probe[3].mode = probe[4].mode
        /\ session = probe[1]
        /\ probe[3].elapsed_time = probe[1].elapsed_time
        /\ probe[3].round = probe[4].round
        /\ probe[3].round = IF probe[1].mode = "Work"
                            THEN probe[1].round
                            ELSE probe[1].round + 1

C14_Witness ==
    /\ probe # NoProbe
    /\ probe[1].mode = "LongBreak" /\ probe[1].round = 4 /\ probe[2] = 2
    /\ probe[3].mode = "Work" /\ probe[3].round = 5

\* C15: for one stopwatch, under every interleaving of start, stop, toggle
\* and the passage of time, elapsed() never goes backward, is accumulated +
\* (now - running_since) while running and accumulated while stopped, and
\* stays constant for as long as the stopwatch is stopped.
C15_StopwatchElapsed ==
    /\ [](LET sw == ui_mode.stopwatch IN
            /\ sw.start_time = {} => elapsed(sw, now) = sw.elapsed_before
            /\ \A since \in sw.start_time :
                    elapsed(sw, now) = sw.elapsed_before + (now - since))
    /\ [][ LET before == elapsed(ui_mode.stopwatch, now)
               after == elapsed(ui_mode'.stopwatch, now')
           IN  /\ after >= before
               /\ (ui_mode.stopwatch.start_time = {} /\ ui_mode'.stopwatch.start_time = {})
                    => after = before ]_vars

C15_Witness ==
    /\ probe # NoProbe /\ probe[1] = "tick"
    /\ ui_mode.stopwatch = [start_time |-> {}, elapsed_before |-> 2]
    /\ now = 3

\* C16: start() on a running stopwatch and stop() on a stopped stopwatch
\* change no field, whatever time has passed since the first call, so a
\* repeated call leaves the same elapsed() at every later time.
C16_StartStopIdempotent ==
    [][ probe' # NoProbe =>
            /\ (probe'[1] = "start" /\ ui_mode.stopwatch.start_time # {})
                    => ui_mode'.stopwatch = ui_mode.stopwatch
            /\ (probe'[1] = "stop" /\ ui_mode.stopwatch.start_time = {})
                    => ui_mode'.stopwatch = ui_mode.stopwatch ]_vars

C16_Witness ==
    /\ probe # NoProbe /\ probe[1] = "start"
    /\ probe[2] = [start_time |-> {1}, elapsed_before |-> 1]
    /\ ui_mode.stopwatch = probe[2]
    /\ now = 3

C18_FailurePropagates ==
    [][ /\ (pc # "failed" /\ pc' = "failed") =>
                /\ pc \in {"show", "event"}
                /\ UNCHANGED <<session, ui_mode, summary, folded, nadv>>
                /\ summary' = <<>>
                /\ cmd' = "None" /\ fold' = <<>>
        /\ pc = "failed" => UNCHANGED vars ]_vars

C18_Witness ==
    /\ pc = "failed" /\ ui_mode.kind = "Skip" /\ ui_mode.elapsed = 1
    /\ session.mode = "Break" /\ nadv = 1 /\ summary = <<>> /\ now = 3

\* the commands that reach the wildcard arm of Running whatever the elapsed
Unlisted == {"Yes", "No", "Invalid"}

\* C19: in Running, Pause, Resume, Toggle, Skip, Reset and every unlisted
\* command leave the Session and the alerter flag unchanged and fold nothing;
\* Reset replaces the stopwatch by a fresh running one, Skip only switches to
\* PendingSkip holding the current elapsed, and the others stay in Running.
C19_RunningFrame ==
    [][ \A c \in {"Pause", "Resume", "Toggle", "Skip", "Reset"} \cup Unlisted :
            (ui_mode.kind = "Running" /\ UpdateStep(c)) =>
                /\ session' = session
                /\ alerter' = alerter
                /\ nadv' = nadv /\ folded' = folded /\ summary' = summary
                /\ c = "Reset" => ui_mode' = Fresh(now')
                /\ c = "Skip" => ui_mode' = Skip(elapsed(ui_mode.stopwatch, now))
                /\ c \in {"Pause", "Resume", "Toggle"} => ui_mode'.kind = "Running"
                /\ c \in Unlisted => ui_mode' = ui_mode ]_vars

C19_Witness ==
    /\ pc = "show" /\ cmd = "Skip" /\ via = "Running"
    /\ ui_mode = Skip(2) /\ alerter /\ config.work_time = 1
    /\ session.mode = "Work" /\ session.round = 1 /\ session.elapsed_time = <<0, 0>>

\* C20: in PendingSkip only confirm (Enter, Yes) and cancel (No, Quit) act:
\* Pause, Resume, Toggle, Skip, Reset and any other command leave the frozen
\* elapsed, the sub-state, the Session and the alerter flag unchanged, and so
\* does every redraw, idle poll and passing of time.
C20_PromptIgnores ==
    [][ ui_mode.kind = "Skip" =>
          /\ \A c \in {"Pause", "Resume", "Toggle", "Skip", "Reset", "Invalid"} :
                UpdateStep(c) =>
                    /\ UNCHANGED <<ui_mode, session, alerter>>
                    /\ nadv' = nadv
          /\ now' # now => ui_mode' = ui_mode
          /\ ~(UpdateStep("Enter") \/ UpdateStep("Yes") \/ UpdateStep("No") \/ QuitStep)
                => UNCHANGED <<ui_mode, session, alerter>> ]_vars

C20_Witness ==
    /\ pc = "show" /\ cmd = "Reset" /\ via = "Skip"
    /\ ui_mode = Skip(1) /\ skip_req # NoSkip /\ skip_req[3] = 1 /\ now = 3

\* C21: after cancel of a skip prompt the controller is in Running with a
\* stopwatch that is running (started at the instant of the cancel) and whose
\* accumulated time is the frozen elapsed, whether the stopwatch was running
\* or paused when the Skip was requested.
C21_CancelResumes ==
    /\ [][ (ui_mode.kind = "Skip" /\ UpdateStep("No")) =>
                /\ ui_mode'.kind = "Running"
                /\ started(ui_mode'.stopwatch)
                /\ ui_mode'.stopwatch.start_time = Some(now')
                /\ ui_mode'.stopwatch.elapsed_before = ui_mode.elapsed
                /\ ui_mode.elapsed = skip_req[2]
                /\ probe' = <<skip_req[4]>> ]_vars
    /\ []((pc = "show" /\ cmd = "No" /\ via = "Skip") =>
                /\ probe \in {<<TRUE>>, <<FALSE>>}
                /\ ui_mode.kind = "Running"
                /\ started(ui_mode.stopwatch))

C21_Witness ==
    /\ pc = "show" /\ cmd = "No" /\ via = "Skip" /\ probe = <<FALSE>>
    /\ ui_mode = Running([start_time |-> {3}, elapsed_before |-> 1]) /\ now = 3

\* C22: every phase starts with a fresh stopwatch: immediately after a phase
\* commit (accepted Enter, or a confirmed skip) the sub-state is Running and
\* the stopwatch has accumulated 0 and is running from that instant, even if
\* the stopwatch was paused when the commit happened.
C22_FreshStopwatch ==
    /\ [][ PhaseCommit =>
                /\ ui_mode' = Fresh(now')
                /\ started(ui_mode'.stopwatch)
                /\ elapsed(ui_mode'.stopwatch, now') = 0
                /\ nadv' = nadv + 1
                /\ probe' \in {<<TRUE>>, <<FALSE>>} ]_vars
    /\ []((pc = "show" /\ fold # <<>>) =>
                /\ ui_mode.kind = "Running"
                /\ started(ui_mode.stopwatch)
                /\ ui_mode.stopwatch.elapsed_before = 0)

C22_Witness ==
    /\ pc = "show" /\ cmd = "Enter" /\ via = "Running" /\ probe = <<FALSE>>
    /\ fold = <<1>> /\ ui_mode = Fresh(3) /\ now = 3 /\ session.mode = "Break"

\* C23: the progress ratio of (elapsed, target) is within [0,1], does not
\* decrease as elapsed grows under a fixed target, is 1 whenever elapsed >=
\* target and whenever target is 0; the filled cells never exceed the bar
\* width and filled + empty is the bar width, in fn progress_bar and in the
\* bar pomodoro_show draws.
C23_ProgressRatio ==
    /\ [](LET el == probe.elapsed
              target == probe.target
              bar == probe.bar
          IN  /\ RatioLeq(RatioZero, bar.ratio) /\ RatioLeq(bar.ratio, RatioOne)
              /\ bar.ratio = progress_ratio(el, target)
              /\ el >= target => RatioEq(bar.ratio, RatioOne)
              /\ target = 0 => RatioEq(bar.ratio, RatioOne)
              /\ \A before \in 0..el :
                    RatioLeq(progress_ratio(before, target), bar.ratio)
              /\ bar.filled \in 0..probe.width
              /\ bar.empty \in 0..probe.width
              /\ bar.filled + bar.empty = probe.width
              /\ probe.shown.arm = "running" =>
                    LET drawn == probe.shown.bar IN
                    /\ drawn.ratio = bar.ratio
                    /\ drawn.filled \in 0..drawn.bar_width
                    /\ drawn.empty \in 0..drawn.bar_width
                    /\ drawn.filled + drawn.empty = drawn.bar_width)
    /\ [][ /\ probe'.target = probe.target
           /\ RatioLeq(probe.bar.ratio, probe'.bar.ratio)
           /\ probe'.bar.filled >= probe.bar.filled ]_vars

C23_Witness ==
    /\ probe.elapsed = 12 /\ probe.target = 5 /\ probe.width = 50
    /\ probe.bar.ratio = RatioOne /\ probe.bar.filled = 50 /\ probe.bar.empty = 0

\* max(a - b, 0) over the integers
MaxDiff(a, b) == IF a - b > 0 THEN a - b ELSE 0

\* C24: the displayed times are the saturating differences: the time
\* remaining is max(target - elapsed, 0) and is shown exactly when elapsed <
\* target, the overrun is max(elapsed - target, 0) and is shown exactly when
\* elapsed >= target; neither is negative, at most one is nonzero, and with a
\* zero target the ended arm is drawn from elapsed 0 on.
C24_DisplayedTimes ==
    [](LET el == probe.elapsed
           target == probe.target
           shown == probe.shown
           time_left == saturating_sub(target, el)
           excess_time == saturating_sub(el, target)
       IN  /\ shown.arm \in {"running", "ended"}
           /\ shown.arm = "running" <=> el < target
           /\ shown.arm = "ended" <=> el >= target
           /\ shown.arm = "running" => shown.time_left = MaxDiff(target, el)
           /\ shown.arm = "ended" => shown.excess_time = MaxDiff(el, target)
           /\ time_left = MaxDiff(target, el) /\ excess_time = MaxDiff(el, target)
           /\ time_left >= 0 /\ excess_time >= 0
           /\ time_left = 0 \/ excess_time = 0
           /\ target = 0 => shown.arm = "ended")

C24_Witness ==
    /\ probe.elapsed = 7 /\ probe.target = 5 /\ probe.width = 30
    /\ probe.shown = [arm |-> "ended", excess_time |-> 2]

\* C25: in every Session the loop reaches (the one the final fold returns
\* included), mode = LongBreak implies round mod 4 = 0 and mode = Break implies
\* round mod 4 is not 0.
C25_BreakKindByRound ==
    /\ session.mode = "LongBreak" => session.round % 4 = 0
    /\ session.mode = "Break" => session.round % 4 # 0

C25_Witness ==
    /\ session.mode = "LongBreak" /\ session.round = 4
    /\ pc = "show" /\ cmd = "Yes" /\ via = "Skip" /\ nadv = 7

\* the loop is in a phase whose stopwatch runs, with room on the clock for
\* the phase to reach its target
RunningPhase ==
    /\ pc \in {"show", "event"}
    /\ ui_mode.kind = "Running"
    /\ started(ui_mode.stopwatch)
    /\ now + saturating_sub(current_target(config, session.mode),
                             elapsed(ui_mode.stopwatch, now)) <= MaxNow
\* the loop stopped, or received a command that the claim rules out
Disturbed ==
    \/ pc \in {"done", "failed"}
    \/ cmd \in {"Pause", "Toggle", "Reset", "Skip", "Quit"}
\* the phase has reached its target
TargetReached ==
    /\ ui_mode.kind = "Running"
    /\ elapsed(ui_mode.stopwatch, now) >= current_target(config, session.mode)
\* the phase has reached its target and its alert has been fired
Alerted == TargetReached /\ alerter
\* the command of this iteration committed the phase
Committed == pc = "show" /\ fold # <<>>
\* a step that receives one of the commands the claim rules out
DisturbStep ==
    \/ QuitStep
    \/ \E c \in {"Pause", "Toggle", "Reset", "Skip"} : UpdateStep(c)

\* C26 as stated: a phase whose stopwatch runs and that is left undisturbed
\* (no Pause, Toggle, Reset, Skip, Quit, no failure) eventually has reached
\* its target with its alert fired.
C26_AlertAlways == RunningPhase ~> (Alerted \/ Disturbed)

\* C26: a phase whose stopwatch runs and that is left undisturbed eventually
\* reaches elapsed >= target; unless Enter commits the phase before the next
\* redraw, the alert then has been fired; and once the target is reached
\* it stays reached, and Enter is accepted as a commit, until a commit or one
\* of the excluded commands.
C26_TargetThenAlert ==
    /\ RunningPhase ~> (TargetReached \/ Disturbed)
    /\ RunningPhase ~> (Alerted \/ Committed \/ Disturbed)
    /\ [][ /\ (TargetReached /\ ~DisturbStep /\ ~PhaseCommit) => TargetReached'
           /\ (Alerted /\ ~DisturbStep /\ ~PhaseCommit) => Alerted'
           /\ (TargetReached /\ UpdateStep("Enter")) =>
                    /\ nadv' = nadv + 1
                    /\ session' = advance(session, elapsed(ui_mode.stopwatch, now)) ]_vars

C26_Witness ==
    /\ pc = "event" /\ Alerted /\ phase_alerts = 1 /\ screen # NoScreen
    /\ screen.arm = "ended" /\ ui_mode.stopwatch = [start_time |-> {2}, elapsed_before |-> 0]
    /\ now = 3 /\ session.mode = "Work" /\ session.round = 2

TypeOK ==
    /\ now \in 0..MaxNow
    /\ session.mode \in Modes
    /\ session.round \in 1..(MaxRound + 1)
    /\ pc \in {"show", "event", "done", "failed"}
    /\ cmd \in Commands \cup {"None"}
    /\ via \in {"None", "Running", "Skip"}
    /\ alerter \in BOOLEAN

====
